---- MODULE Spec2Model ----
(***************************************************************************)
(* PageRank (src/pagerank.py): the transition model, the random-surfer     *)
(* sampler and the iterative solver, each as a state machine over the      *)
(* function's local variables.                                             *)
(*                                                                         *)
(* Numbers.  transition_model and sample_pagerank are modelled in exact    *)
(* rational arithmetic (pairs <<numerator, denominator>> in lowest terms). *)
(* iterate_pagerank runs a convergence loop whose number of rounds depends *)
(* on rounded values, so its floats are modelled as decimal fixed point    *)
(* with eight fractional digits (One = 10^8), every multiplication and     *)
(* division rounded to the nearest unit.                                   *)
(***************************************************************************)
EXTENDS Integers, Sequences, FiniteSets, TLC

VARIABLES
    call,            \* the function being run
    corpus,          \* argument: page -> set of pages it links to
    damping_factor,  \* argument: a rational
    page,            \* transition_model's argument `page`
    n,               \* sample_pagerank's argument `n`
    pc,              \* position in the function body
    exc,             \* the exception raised, "" while none
    probability,     \* transition_model's local / return value
    pagerank,        \* sample_pagerank's and iterate_pagerank's local / return value
    new_pagerank,    \* iterate_pagerank's local
    max_change,      \* iterate_pagerank's local
    curr_page,       \* sample_pagerank's local
    i,               \* sample_pagerank's loop variable, as the number of iterations done
    round            \* number of completed rounds of iterate_pagerank's while loop

vars == <<call, corpus, damping_factor, page, n, pc, exc, probability,
          pagerank, new_pagerank, max_change, curr_page, i, round>>

---------------------------------------------------------------------------
(* Bounds of the model *)

\* a corpus has at most MaxPages pages
MaxPages == 3
\* sample_pagerank is called with n up to MaxN
MaxN == 3
\* random.random() is drawn from the NumDraws values k/NumDraws, k < NumDraws
NumDraws == 4
\* the while loop of iterate_pagerank is followed for at most MaxRounds rounds
MaxRounds == 40

None == "None"

---------------------------------------------------------------------------
(* Exact rationals *)

Abs(x) == IF x < 0 THEN -x ELSE x

RECURSIVE GCD(_, _)
GCD(a, b) == IF b = 0 THEN a ELSE GCD(b, a % b)

\* a / b in lowest terms with a positive denominator (b # 0)
Rat(a, b) ==
    LET g == GCD(Abs(a), Abs(b))
        s == IF b < 0 THEN -1 ELSE 1
    IN  <<(s * a) \div g, (s * b) \div g>>

RInt(k) == <<k, 1>>
RAdd(x, y) == Rat(x[1] * y[2] + y[1] * x[2], x[2] * y[2])
RSub(x, y) == Rat(x[1] * y[2] - y[1] * x[2], x[2] * y[2])
RDivInt(x, k) == Rat(x[1], x[2] * k)
RLeq(x, y) == x[1] * y[2] <= y[1] * x[2]

\* the sum of f[k] over k in 1..m, f a table of rationals
RECURSIVE RSumTo(_, _)
RSumTo(f, m) == IF m = 0 THEN RInt(0) ELSE RAdd(RSumTo(f, m - 1), f[m])

\* the sum of f[k] over k in 1..m, f a table of integers
RECURSIVE SumTo(_, _)
SumTo(f, m) == IF m = 0 THEN 0 ELSE SumTo(f, m - 1) + f[m]

---------------------------------------------------------------------------
(* Inputs *)

\* len(corpus)
Len0(c) == Cardinality(DOMAIN c)

\* The corpora crawl() can build: pages 1..k in dict order, every link a page
\* of the corpus, no page linking to itself.  k = 0 is the empty corpus (a
\* directory without .html files).
Corpora ==
    UNION { {c \in [1..k -> SUBSET (1..k)] : \A p \in 1..k : p \notin c[p]} :
            k \in 0..MaxPages }

\* damping factors: the endpoints, DAMPING = 0.85, and one value on each side
\* outside [0, 1]
Dampings == {Rat(0, 1), Rat(17, 20), Rat(1, 1), Rat(-1, 2), Rat(3, 2)}

\* the damping factors sample_pagerank is called with
SampleDampings == {Rat(0, 1), Rat(17, 20), Rat(1, 1), Rat(3, 2)}

\* the sample sizes sample_pagerank is called with: negative, zero, one (no
\* transition) and the largest
SampleSizes == {-1, 0, 1, MaxN}

ValidDamping(d) == RLeq(RInt(0), d) /\ RLeq(d, RInt(1))

\* a valid graph: at least one page, every link a page of the graph, no
\* self-links
ValidCorpus(c) ==
    /\ Len0(c) >= 1
    /\ \A p \in DOMAIN c : c[p] \subseteq DOMAIN c /\ p \notin c[p]

\* the values random.random() is drawn from, all in [0, 1)
Draws == {Rat(k, NumDraws) : k \in 0..(NumDraws - 1)}

---------------------------------------------------------------------------
(* transition_model *)

\* a plausible slip: 1 shared among the other pages, the sink left out of the
\* count
SinkDistributionOthers(c) ==
    [q \in DOMAIN c |-> IF Len0(c) = 1 THEN RInt(1)
                        ELSE RDivInt(RInt(1), Len0(c) - 1)]

\* lines 64-67: the current page has no links
SinkDistribution(c) ==
    LET zero == [q \in DOMAIN c |-> RInt(0)]
    IN  [q \in DOMAIN c |-> RAdd(zero[q], RDivInt(RInt(1), Len0(c)))]

\* a plausible slip: the two contributions chosen exclusively (a branch)
\* instead of summed
LinkDistributionBranch(c, p, d) ==
    [q \in DOMAIN c |->
        IF q \in c[p] THEN RDivInt(d, Cardinality(c[p]))
        ELSE RDivInt(RSub(RInt(1), d), Len0(c))]

\* a plausible slip: the random jump spread over the linked pages only
LinkDistributionLinkedOnly(c, p, d) ==
    [q \in DOMAIN c |->
        IF q \in c[p]
        THEN RAdd(RDivInt(d, Cardinality(c[p])),
                  RDivInt(RSub(RInt(1), d), Cardinality(c[p])))
        ELSE RInt(0)]

\* lines 69-77 with every contribution added, as the source does
LinkDistribution(c, p, d) ==
    LET zero == [q \in DOMAIN c |-> RInt(0)]
        prob_link == RDivInt(d, Cardinality(c[p]))
        linked == [q \in DOMAIN c |->
                      IF q \in c[p] THEN RAdd(zero[q], prob_link) ELSE zero[q]]
        prob_random == RDivInt(RSub(RInt(1), d), Len0(c))
    IN  [q \in DOMAIN c |-> RAdd(linked[q], prob_random)]

transition_model(c, p, d) ==
    IF Cardinality(c[p]) = 0 THEN SinkDistribution(c) ELSE LinkDistribution(c, p, d)

TransitionInit ==
    /\ call = "transition_model"
    /\ corpus \in {c \in Corpora : Len0(c) > 0}
    /\ damping_factor \in Dampings
    /\ page \in DOMAIN corpus
    /\ n = 0
    /\ pc = "start"
    /\ exc = ""
    /\ probability = <<>>
    /\ pagerank = <<>>
    /\ new_pagerank = <<>>
    /\ max_change = 0
    /\ curr_page = None
    /\ i = 0
    /\ round = 0

TransitionCall ==
    /\ call = "transition_model"
    /\ pc = "start"
    /\ probability' = transition_model(corpus, page, damping_factor)
    /\ pc' = "returned"
    /\ UNCHANGED <<call, corpus, damping_factor, page, n, exc, pagerank,
                   new_pagerank, max_change, curr_page, i, round>>

TransitionNext == TransitionCall

SpecTransition == TransitionInit /\ [][TransitionNext]_vars

---------------------------------------------------------------------------
(* Claims about transition_model, checked under SpecTransition *)

TransitionReturned == call = "transition_model" /\ pc = "returned"

\* C3: for a valid corpus, a page of it and a damping factor in [0, 1],
\* transition_model returns a table over exactly the pages of the corpus whose
\* values are all >= 0 and sum to exactly 1.
C3_TransitionIsDistribution ==
    (TransitionReturned /\ ValidDamping(damping_factor)) =>
        /\ DOMAIN probability = DOMAIN corpus
        /\ \A q \in DOMAIN corpus : RLeq(RInt(0), probability[q])
        /\ RSumTo(probability, Len0(corpus)) = RInt(1)

\* a returned distribution for a page with links, some page not linked, and a
\* damping factor strictly inside (0, 1)
C3_Witness ==
    /\ TransitionReturned
    /\ damping_factor = Rat(17, 20)
    /\ Len0(corpus) = MaxPages
    /\ Cardinality(corpus[page]) = 1

\* C4: from a sink, every page of the corpus (the sink included) gets exactly
\* 1/|corpus|, whatever the damping factor.
C4_SinkUniform ==
    (TransitionReturned /\ corpus[page] = {}) =>
        \A q \in DOMAIN corpus : probability[q] = Rat(1, Len0(corpus))

\* a returned distribution for a sink of a corpus of several pages
C4_Witness ==
    /\ TransitionReturned
    /\ corpus[page] = {}
    /\ Len0(corpus) = MaxPages
    /\ damping_factor = Rat(17, 20)
    /\ probability[page] = Rat(1, MaxPages)

\* C5: from a page with links, a linked page gets (1 - d)/|corpus| +
\* d/|links(page)| and every other page, the current page included, gets
\* exactly (1 - d)/|corpus|.
C5_LinkMixture ==
    (TransitionReturned /\ corpus[page] # {}) =>
        LET base == RDivInt(RSub(RInt(1), damping_factor), Len0(corpus))
            link == RDivInt(damping_factor, Cardinality(corpus[page]))
        IN  /\ \A q \in corpus[page] : probability[q] = RAdd(base, link)
            /\ \A q \in DOMAIN corpus \ corpus[page] : probability[q] = base
            /\ probability[page] = base

\* a returned distribution where linked and unlinked pages both exist and both
\* contributions are non-zero
C5_Witness ==
    /\ TransitionReturned
    /\ damping_factor = Rat(17, 20)
    /\ Len0(corpus) = 3
    /\ Cardinality(corpus[page]) = 1
    /\ \E q \in corpus[page] : probability[q] = Rat(9, 10)
    /\ probability[page] = Rat(1, 20)

---------------------------------------------------------------------------
(* sample_pagerank *)

\* lines 104-108: scan the pages q, q+1, ... in dict order, adding each weight
\* to the running total `prob`; the first page whose running total is >= the
\* draw becomes the current page.  If the loop ends without a break, the
\* current page stays.
RECURSIVE Scan(_, _, _, _, _)
Scan(weight, rand_choice, q, prob, curr) ==
    IF q > Len0(weight) THEN curr
    ELSE LET acc == RAdd(prob, weight[q])
         IN  IF RLeq(rand_choice, acc) THEN q
             ELSE Scan(weight, rand_choice, q + 1, acc, curr)

\* a plausible slip: the sampler starts with no visit counted
FirstVisitUncounted(c, start) == [q \in DOMAIN c |-> 0]

\* lines 91-96: every counter 0, then the start page counted once
FirstVisit(c, start) ==
    LET zero == [q \in DOMAIN c |-> 0]
    IN  [zero EXCEPT ![start] = @ + 1]

\* lines 112-113
Frequencies(counts, total) == [q \in DOMAIN counts |-> Rat(counts[q], total)]

SampleInit ==
    /\ call = "sample_pagerank"
    /\ corpus \in Corpora
    /\ damping_factor \in SampleDampings
    /\ n \in SampleSizes
    /\ page = None
    /\ pc = "start"
    /\ exc = ""
    /\ probability = <<>>
    /\ pagerank = <<>>
    /\ new_pagerank = <<>>
    /\ max_change = 0
    /\ curr_page = None
    /\ i = 0
    /\ round = 0

\* lines 91-96; random.choice raises IndexError on an empty list
SampleStart ==
    /\ call = "sample_pagerank"
    /\ pc = "start"
    /\ IF Len0(corpus) = 0
       THEN /\ pc' = "raised"
            /\ exc' = "IndexError"
            /\ UNCHANGED <<pagerank, curr_page>>
       ELSE \E start \in DOMAIN corpus :
                /\ pagerank' = FirstVisit(corpus, start)
                /\ curr_page' = start
                /\ pc' = "loop"
                /\ exc' = exc
    /\ UNCHANGED <<call, corpus, damping_factor, page, n, probability,
                   new_pagerank, max_change, i, round>>

\* lines 98-110, one iteration of `for i in range(n-1)`.  In exact arithmetic
\* the weights total 1 and some page always meets the draw; summed in doubles
\* they can total 0.9999999999999998, below the largest draw, and then the
\* inner loop ends without a break, leaving the current page as it is.
SampleStep ==
    /\ call = "sample_pagerank"
    /\ pc = "loop"
    /\ i < n - 1
    /\ LET weight == transition_model(corpus, curr_page, damping_factor)
           met == {Scan(weight, rand_choice, 1, RInt(0), curr_page) :
                      rand_choice \in Draws}
       IN  \E next \in met \cup {curr_page} :
               /\ curr_page' = next
               /\ pagerank' = [pagerank EXCEPT ![next] = @ + 1]
    /\ i' = i + 1
    /\ UNCHANGED <<call, corpus, damping_factor, page, n, pc, exc, probability,
                   new_pagerank, max_change, round>>

\* lines 112-115, after range(n-1) is exhausted; count / 0 raises
\* ZeroDivisionError
SampleFinish ==
    /\ call = "sample_pagerank"
    /\ pc = "loop"
    /\ i >= n - 1
    /\ IF n = 0
       THEN /\ pc' = "raised"
            /\ exc' = "ZeroDivisionError"
            /\ UNCHANGED pagerank
       ELSE /\ pagerank' = Frequencies(pagerank, n)
            /\ pc' = "returned"
            /\ exc' = exc
    /\ UNCHANGED <<call, corpus, damping_factor, page, n, probability,
                   new_pagerank, max_change, curr_page, i, round>>

SampleNext == SampleStart \/ SampleStep \/ SampleFinish

SpecSample == SampleInit /\ [][SampleNext]_vars

---------------------------------------------------------------------------
(* Claims about sample_pagerank, checked under SpecSample *)

\* C2: for a valid corpus, a damping factor in [0, 1] and n >= 1, the visits
\* counted are the start page's plus one per transition made (whatever the
\* draws), n in all when the loop is over, and the returned ranks are each in
\* [0, 1] and sum to exactly 1.
C2_SampleCountsPartitionN ==
    (/\ call = "sample_pagerank"
     /\ ValidCorpus(corpus)
     /\ ValidDamping(damping_factor)
     /\ n >= 1) =>
        /\ pc = "loop" =>
              /\ SumTo(pagerank, Len0(corpus)) = i + 1
              /\ i <= n - 1
        /\ pc = "returned" =>
              /\ i = n - 1
              /\ DOMAIN pagerank = DOMAIN corpus
              /\ \A q \in DOMAIN corpus :
                    RLeq(RInt(0), pagerank[q]) /\ RLeq(pagerank[q], RInt(1))
              /\ RSumTo(pagerank, Len0(corpus)) = RInt(1)
        /\ pc # "raised"

\* a returned table after several transitions that visited more than one page
C2_Witness ==
    /\ call = "sample_pagerank"
    /\ pc = "returned"
    /\ damping_factor = Rat(17, 20)
    /\ n = 3
    /\ i = 2
    /\ \E q \in DOMAIN corpus : pagerank[q] = Rat(2, 3)
    /\ \E q \in DOMAIN corpus : pagerank[q] = Rat(1, 3)

---------------------------------------------------------------------------
(* Floats of iterate_pagerank: fixed point, One = 1.0, rounded to nearest *)

One == 10 ^ 8
Base == 10 ^ 4

Sgn(x) == IF x < 0 THEN -1 ELSE 1

\* round(a * b / One) for a, b >= 0, by halves so that no product leaves 32 bits
UMul(a, b) ==
    LET a1 == a \div Base
        a0 == a % Base
        b1 == b \div Base
        b0 == b % Base
    IN  a1 * b1 + ((a1 * b0 + a0 * b1) + ((a0 * b0 + One \div 2) \div Base)) \div Base

\* long division: <<quotient, remainder>> of (q * b + r) * s by b, a decimal
\* digit at a time
RECURSIVE LongDiv(_, _, _, _)
LongDiv(q, r, b, s) ==
    IF s = 1 THEN <<q, r>>
    ELSE LongDiv(q * 10 + (r * 10) \div b, (r * 10) % b, b, s \div 10)

\* round(a * One / b) for a >= 0, b > 0
UDiv(a, b) ==
    LET qr == LongDiv(a \div b, a % b, b, One)
    IN  qr[1] + (IF 2 * qr[2] >= b THEN 1 ELSE 0)

\* x * y
FMul(x, y) == Sgn(x) * Sgn(y) * UMul(Abs(x), Abs(y))
\* x / y, y # 0
FDiv(x, y) == Sgn(x) * Sgn(y) * UDiv(Abs(x), Abs(y))
\* x / k for an int k > 0
FDivInt(x, k) == Sgn(x) * ((Abs(x) + k \div 2) \div k)
\* the float of a rational argument
ToFloat(r) == FDivInt(r[1] * One, r[2])

\* the literal 0.001 of line 139
Tolerance == One \div 1000

---------------------------------------------------------------------------
(* iterate_pagerank *)

\* the damping factors iterate_pagerank is called with
IterateDampings == {Rat(0, 1), Rat(1, 2), Rat(17, 20), Rat(1, 1), Rat(-1, 2)}

\* line 131
ProbRandom(c, d) == FDivInt(One - ToFloat(d), Len0(c))
\* line 132
ProbAll(c) == FDivInt(One, Len0(c))

\* lines 133-134
InitialRanks(c, d) == [q \in DOMAIN c |-> ProbRandom(c, d)]

\* a plausible slip: a linking page's rank shared over all pages of the corpus
\* instead of over its own links
ContributionOverAll(c, pr, p, o) ==
    IF Cardinality(c[o]) = 0 THEN FMul(pr[o], ProbAll(c))
    ELSE IF p \in c[o] THEN FDivInt(pr[o], Len0(c))
    ELSE 0

\* lines 145-148: what other_page `o` adds to prob_choice of page `p`
Contribution(c, pr, p, o) ==
    IF Cardinality(c[o]) = 0 THEN FMul(pr[o], ProbAll(c))
    ELSE IF p \in c[o] THEN FDivInt(pr[o], Cardinality(c[o]))
    ELSE 0

\* lines 143-148: the inner loop over other_page = o, o+1, ... in dict order
RECURSIVE ProbChoice(_, _, _, _, _)
ProbChoice(c, pr, p, o, prob_choice) ==
    IF o > Len0(c) THEN prob_choice
    ELSE ProbChoice(c, pr, p, o + 1, prob_choice + Contribution(c, pr, p, o))

\* line 150
NewRank(c, pr, d, p) ==
    ProbRandom(c, d) + FMul(ToFloat(d), ProbChoice(c, pr, p, 1, 0))

\* the update done in place: pages p, p+1, ... in dict order, each new rank
\* written to the table the later pages read
RECURSIVE InPlace(_, _, _, _)
InPlace(c, pr, d, p) ==
    IF p > Len0(c) THEN pr
    ELSE InPlace(c, [pr EXCEPT ![p] = NewRank(c, pr, d, p)], d, p + 1)

\* a plausible slip: one table, updated in place
UpdateRanksInPlace(c, pr, d) == InPlace(c, pr, d, 1)

\* lines 142-150: every new rank computed from `pagerank`, written to
\* `new_pagerank`
UpdateRanks(c, pr, d) == [p \in DOMAIN c |-> NewRank(c, pr, d, p)]

\* line 152
TotalProb(new) == SumTo(new, Len0(new))

\* lines 152-154 (total_prob # 0)
Normalize(new) == [p \in DOMAIN new |-> FDiv(new[p], TotalProb(new))]

\* lines 156-158: the loop over page = p, p+1, ... in dict order
RECURSIVE MaxChange(_, _, _, _)
MaxChange(pr, new, p, change) ==
    IF p > Len0(pr) THEN change
    ELSE LET rank_change == Abs(pr[p] - new[p])
         IN  MaxChange(pr, new, p + 1,
                       IF rank_change > change THEN rank_change ELSE change)

IterateInit ==
    /\ call = "iterate_pagerank"
    /\ corpus \in Corpora
    /\ damping_factor \in IterateDampings
    /\ page = None
    /\ n = 0
    /\ pc = "start"
    /\ exc = ""
    /\ probability = <<>>
    /\ pagerank = <<>>
    /\ new_pagerank = <<>>
    /\ max_change = 0
    /\ curr_page = None
    /\ i = 0
    /\ round = 0

\* lines 129-137; line 131 divides by len(corpus)
IterateStart ==
    /\ call = "iterate_pagerank"
    /\ pc = "start"
    /\ IF Len0(corpus) = 0
       THEN /\ pc' = "raised"
            /\ exc' = "ZeroDivisionError"
            /\ UNCHANGED <<pagerank, new_pagerank, max_change>>
       ELSE /\ pagerank' = InitialRanks(corpus, damping_factor)
            /\ new_pagerank' = [q \in DOMAIN corpus |-> None]
            /\ max_change' = One
            /\ pc' = "while"
            /\ exc' = exc
    /\ UNCHANGED <<call, corpus, damping_factor, page, n, probability,
                   curr_page, i, round>>

\* lines 139-150: the loop test passes, max_change is reset and every page's
\* new rank is computed
IterateUpdate ==
    /\ call = "iterate_pagerank"
    /\ pc = "while"
    /\ max_change > Tolerance
    /\ round < MaxRounds
    /\ max_change' = 0
    /\ new_pagerank' = UpdateRanks(corpus, pagerank, damping_factor)
    /\ pc' = "normalize"
    /\ UNCHANGED <<call, corpus, damping_factor, page, n, exc, probability,
                   pagerank, curr_page, i, round>>

\* lines 152-160: renormalize (line 154 divides by total_prob), measure the
\* change, copy the new table over the old
IterateNormalize ==
    /\ call = "iterate_pagerank"
    /\ pc = "normalize"
    /\ IF TotalProb(new_pagerank) = 0
       THEN /\ pc' = "raised"
            /\ exc' = "ZeroDivisionError"
            /\ UNCHANGED <<pagerank, new_pagerank, max_change, round>>
       ELSE LET normalized == Normalize(new_pagerank)
            IN  /\ new_pagerank' = normalized
                /\ max_change' = MaxChange(pagerank, normalized, 1, max_change)
                /\ pagerank' = normalized
                /\ pc' = "while"
                /\ exc' = exc
                /\ round' = round + 1
    /\ UNCHANGED <<call, corpus, damping_factor, page, n, probability,
                   curr_page, i>>

\* lines 139 and 162: the loop test fails
IterateReturn ==
    /\ call = "iterate_pagerank"
    /\ pc = "while"
    /\ ~(max_change > Tolerance)
    /\ pc' = "returned"
    /\ UNCHANGED <<call, corpus, damping_factor, page, n, exc, probability,
                   pagerank, new_pagerank, max_change, curr_page, i, round>>

IterateNext == IterateStart \/ IterateUpdate \/ IterateNormalize \/ IterateReturn

SpecIterate == IterateInit /\ [][IterateNext]_vars

---------------------------------------------------------------------------
(* Claims about iterate_pagerank, checked under SpecIterate *)

IterateValid ==
    /\ call = "iterate_pagerank"
    /\ ValidCorpus(corpus)
    /\ ValidDamping(damping_factor)

\* 1e-6, the tolerance within which the returned ranks are to sum to 1.0
SumTolerance == One \div (10 ^ 6)

\* C1: for every valid corpus and damping factor in [0, 1], endpoints
\* included, iterate_pagerank returns (raises nothing) a table over exactly
\* the pages of the corpus whose values sum to 1.0.
C1_IterateReturnsDistribution ==
    IterateValid =>
        /\ pc # "raised"
        /\ pc = "returned" =>
              /\ DOMAIN pagerank = DOMAIN corpus
              /\ Abs(SumTo(pagerank, Len0(corpus)) - One) <= SumTolerance

\* C7: for every valid corpus and damping factor in [0, 1] the loop ends by
\* its own test: it raises nothing, it is still running only while
\* max_change > 0.001 and never beyond MaxRounds rounds, and it returns with
\* every rank within 0.001 of its value of the round before.
C7_LoopTerminatesWithinTolerance ==
    IterateValid =>
        /\ exc = ""
        /\ (pc = "while" /\ max_change > Tolerance) => round < MaxRounds
        /\ pc = "normalize" => round < MaxRounds
        /\ pc = "returned" => (round >= 1 /\ max_change <= Tolerance)

\* the scenario of C8: A = 1, B = 2, C = 3, damping 0.85
Scenario ==
    /\ call = "iterate_pagerank"
    /\ corpus = <<{2}, {1, 3}, {1}>>
    /\ damping_factor = Rat(17, 20)

\* |x - hundredths/100| <= 0.05
Roughly(x, hundredths) == Abs(x - hundredths * (One \div 100)) <= 5 * (One \div 100)

\* C8 as claimed: on {A: {B}, B: {A, C}, C: {A}} with damping 0.85 the returned
\* ranks are within 0.05 of A = 0.39, B = 0.20, C = 0.39; B is the lowest and
\* A and C are about equal.
C8_ScenarioAsClaimed ==
    (Scenario /\ pc = "returned") =>
        /\ Roughly(pagerank[1], 39)
        /\ Roughly(pagerank[2], 20)
        /\ Roughly(pagerank[3], 39)
        /\ pagerank[2] < pagerank[1] /\ pagerank[2] < pagerank[3]
        /\ Abs(pagerank[1] - pagerank[3]) <= 5 * (One \div 100)

\* C8 amended: on {A: {B}, B: {A, C}, C: {A}} with damping 0.85 the returned
\* ranks are within 0.05 of A = 0.39, B = 0.39, C = 0.20; C is the lowest and
\* A and B are about equal.
C8_ScenarioRanks ==
    (Scenario /\ pc = "returned") =>
        /\ Roughly(pagerank[1], 39)
        /\ Roughly(pagerank[2], 39)
        /\ Roughly(pagerank[3], 20)
        /\ pagerank[3] < pagerank[1] /\ pagerank[3] < pagerank[2]
        /\ Abs(pagerank[1] - pagerank[2]) <= 5 * (One \div 100)

\* the scenario has run to its return
C8_Witness == Scenario /\ pc = "returned" /\ round > 1

\* C9: before the first round every page's rank is 1/N, and the table sums
\* to 1 (up to the rounding of 1/N).
C9_InitialRanksUniform ==
    (IterateValid /\ pc = "while" /\ round = 0) =>
        /\ \A q \in DOMAIN corpus : pagerank[q] = ProbAll(corpus)
        /\ Abs(SumTo(pagerank, Len0(corpus)) - One) <= Len0(corpus)

\* the sum of f[q] over the pages q of the set S
RECURSIVE SumOver(_, _)
SumOver(f, S) ==
    IF S = {} THEN 0
    ELSE LET q == CHOOSE x \in S : TRUE IN f[q] + SumOver(f, S \ {q})

\* The update equation: (1 - d)/N + d * (the sum over the pages q linking to p
\* of PR(q)/|links(q)| + the sum over the sinks q of PR(q)/N).
RankEquation(c, pr, d, p) ==
    LET linkers == {q \in DOMAIN c : p \in c[q]}
        sinks == {q \in DOMAIN c : c[q] = {}}
        share == [q \in DOMAIN c |->
                     IF q \in sinks THEN FDivInt(pr[q], Len0(c))
                     ELSE FDivInt(pr[q], Cardinality(c[q]))]
    IN  FDivInt(One - ToFloat(d), Len0(c))
          + FMul(ToFloat(d), SumOver(share, linkers) + SumOver(share, sinks))

\* C10: when the update loop of a round is over, every page's new rank is the
\* update equation applied to the table of the round before (up to a rounding
\* unit per page: the source multiplies by 1/N where the equation divides by
\* N), whatever the position of the page in the dict.
C10_UpdateFromPreviousRound ==
    (IterateValid /\ pc = "normalize") =>
        \A p \in DOMAIN corpus :
            Abs(new_pagerank[p] - RankEquation(corpus, pagerank, damping_factor, p))
                <= Len0(corpus)

\* a second or later round's update over a corpus with a sink and a linked
\* page, from ranks that are no longer all equal
C10_Witness ==
    /\ IterateValid
    /\ pc = "normalize"
    /\ round >= 1
    /\ damping_factor = Rat(17, 20)
    /\ \E q \in DOMAIN corpus : corpus[q] = {}
    /\ \E q \in DOMAIN corpus : corpus[q] # {}
    /\ \E q, r \in DOMAIN corpus : pagerank[q] # pagerank[r]

---------------------------------------------------------------------------
(* Error handling, checked under SpecSample *)

Malformed == Len0(corpus) = 0 \/ n < 1 \/ ~ValidDamping(damping_factor)

\* C6: a call of sample_pagerank with an empty corpus, n < 1 or a damping
\* factor outside [0, 1] is rejected: it returns no table, and what it raises
\* is InvalidArgument.
C6_MalformedInputRejected ==
    (call = "sample_pagerank" /\ Malformed) =>
        /\ pc # "returned"
        /\ pc = "raised" => exc = "InvalidArgument"

====
